---- MODULE Spec2Model ----
(***************************************************************************)
(* A model of examples/ola-recorder.cpp: main's flag validation and        *)
(* dispatch, VerifyShow's scan of a show file through ShowLoader,          *)
(* RecordShow with its signal thread, and PlaybackShow.                    *)
(***************************************************************************)
EXTENDS Integers, Sequences, FiniteSets, TLC

(* ---------------------------------------------------------------------- *)
(* Bounds of the model                                                     *)
(* ---------------------------------------------------------------------- *)

\* longest show file (number of entries) that is enumerated
MaxLen == 3

\* universes that occur in a show file
Universes == {1, 2}

\* values of ShowEntry::next_wait (milliseconds) that occur in a show file
Waits == {0, 50, 100, 200}

\* values given to --start and --stop (milliseconds)
StartValues == {0, 100, 150, 200, 400}

StopValues == {0, 100, 120, 400}

\* values given to --iterations and --duration (seconds)
IterationValues == {0, 1, 2}

DurationValues == {0, 1}

\* most frames that arrive during one recording
MaxFrames == 2

\* most signals (SIGINT, SIGTERM) delivered during one recording
MaxSignals == 2

\* longest show file that is played back
MaxPlayLen == 2

\* most passes through the show that a playback is followed for
MaxPasses == 2

\* real time (seconds) that a playback is followed for
MaxElapsed == 1

\* most calls of NextEntry on one loader cursor
MaxCalls == 5

(* ---------------------------------------------------------------------- *)
(* Show files and the loader                                               *)
(* ---------------------------------------------------------------------- *)

\* a ShowEntry, reduced to the two fields VerifyShow reads
ShowEntry == [universe : Universes, next_wait : Waits]

\* the entry object before NextEntry has filled it
NoEntry == [universe |-> 0, next_wait |-> 0]

\* sequences of entries of length 0..n
RECURSIVE EntrySeqs(_)
EntrySeqs(n) ==
  IF n = 0 THEN {<< >>}
  ELSE LET shorter == EntrySeqs(n - 1)
       IN  shorter \cup {Append(s, e) : s \in {t \in shorter : Len(t) = n - 1},
                                        e \in ShowEntry}

\* a show file: well-formed entries, followed by the end of the file or by
\* a malformed line
ShowFiles == [entries : EntrySeqs(MaxLen), end : {"END_OF_FILE", "INVALID_LINE"}]

NoFile == [entries |-> << >>, end |-> "END_OF_FILE"]

\* ShowLoader::NextEntry: the state it returns with the cursor after `pos`
\* entries
NextEntryState(f, pos) ==
  IF pos < Len(f.entries) THEN "OK" ELSE f.end

\* the cursor moved past whatever was read, a malformed line included
NextCursorAlways(pos, st) == pos + 1

\* ShowLoader::NextEntry: the cursor after a call that returned `st`
NextCursor(pos, st) == IF st = "OK" THEN pos + 1 ELSE pos

(* ---------------------------------------------------------------------- *)
(* State                                                                   *)
(* ---------------------------------------------------------------------- *)

VARIABLES
  FLAGS_playback,      \* TRUE iff --playback is a non-empty string
  FLAGS_record,        \* TRUE iff --record is a non-empty string
  FLAGS_verify,        \* TRUE iff --verify is a non-empty string
  FLAGS_universes,     \* the --universes string: "empty", "invalid" or "valid"
  FLAGS_start,
  FLAGS_stop,
  FLAGS_iterations,
  FLAGS_duration,
  FLAGS_delay,
  status,              \* status the invoked operation ended with, or "none"
  recorder,            \* the ShowRecorder of RecordShow
  signal_thread,       \* "none", "installed", "running", "failed", "gone"
  signals,             \* number of signals the signal thread has handled
  stop_calls,          \* number of calls of ShowRecorder::Stop
  reported,            \* the count RecordShow wrote ("Saved n frames"), or -1
  player,              \* the ShowPlayer of PlaybackShow
  elapsed,             \* real time (seconds) since Playback started
  cancel,              \* TRUE once cancellation of the playback is requested
  pc,                  \* position of the process
  invoked,             \* which of PlaybackShow, RecordShow, VerifyShow ran
  exit_code,           \* exit status of the process, "none" while it runs
  file,                \* content of the show file the loader has opened
  loaded,              \* TRUE once ShowLoader::Load has succeeded
  cursor,              \* number of entries the loader has handed out
  next_calls,          \* number of calls of ShowLoader::NextEntry
  entry,
  state,
  playback_pos,
  playing,
  frames_by_universe,
  warn_start,          \* "ends before the start time" was logged
  warn_stop,           \* "ends before the stop time" was logged
  total_time,
  total,
  summary              \* TRUE once the summary has been printed

vars == << FLAGS_playback, FLAGS_record, FLAGS_verify, FLAGS_universes,
           FLAGS_start, FLAGS_stop, FLAGS_iterations, FLAGS_duration,
           FLAGS_delay, status, recorder, signal_thread, signals, stop_calls,
           reported, player, elapsed, cancel,
           pc, invoked, exit_code, file, loaded, cursor, next_calls, entry,
           state, playback_pos, playing, frames_by_universe, warn_start,
           warn_stop, total_time, total, summary >>

flagVars == << FLAGS_playback, FLAGS_record, FLAGS_verify, FLAGS_universes,
               FLAGS_start, FLAGS_stop, FLAGS_iterations, FLAGS_duration,
               FLAGS_delay >>

recVars == << recorder, signal_thread, signals, stop_calls, reported >>

playVars == << player, elapsed, cancel >>

opVars == << recVars, playVars >>

loaderVars == << file, loaded, cursor, next_calls, entry, state >>

scanVars == << playback_pos, playing, frames_by_universe >>

reportVars == << warn_start, warn_stop, total_time, total, summary >>

EmptyMap == [u \in {} |-> 0]

\* the recorder and the player before they are constructed
NoRecorder ==
  [state |-> "None", stop_requested |-> FALSE, log |-> << >>,
   frame_count |-> 0, closes |-> 0, persisted |-> << >>]

NoPlayer ==
  [iterations |-> 0, duration |-> 0, delay |-> 0, start |-> 0, stop |-> 0,
   passes |-> 0, pos |-> 0]

\* everything but the flags and pc, as it is when main starts
InitLocals ==
  /\ status = "none"
  /\ recorder = NoRecorder
  /\ signal_thread = "none"
  /\ signals = 0
  /\ stop_calls = 0
  /\ reported = -1
  /\ player = NoPlayer
  /\ elapsed = 0
  /\ cancel = FALSE
  /\ invoked = {}
  /\ exit_code = "none"
  /\ file = NoFile
  /\ loaded = FALSE
  /\ cursor = 0
  /\ next_calls = 0
  /\ entry = NoEntry
  /\ state = "UNSET"
  /\ playback_pos = 0
  /\ playing = FALSE
  /\ frames_by_universe = EmptyMap
  /\ warn_start = FALSE
  /\ warn_stop = FALSE
  /\ total_time = 0
  /\ total = 0
  /\ summary = FALSE

\* the flags after AppInit. A secondary flag that only one operation reads
\* is enumerated together with that operation's primary flag and has its
\* default otherwise.
InitFlags ==
  /\ FLAGS_playback \in BOOLEAN
  /\ FLAGS_record \in BOOLEAN
  /\ FLAGS_verify \in BOOLEAN
  /\ FLAGS_universes \in
       (IF FLAGS_record /\ ~FLAGS_playback
        THEN {"empty", "invalid", "valid"} ELSE {"empty"})
  /\ FLAGS_start \in StartValues
  /\ FLAGS_stop \in StopValues
  /\ FLAGS_iterations \in (IF FLAGS_playback THEN IterationValues ELSE {1})
  /\ FLAGS_duration \in (IF FLAGS_playback THEN DurationValues ELSE {0})
  /\ FLAGS_delay = 0

Init ==
  /\ InitFlags
  /\ InitLocals
  /\ pc = "main"

(* ---------------------------------------------------------------------- *)
(* main                                                                    *)
(* ---------------------------------------------------------------------- *)

\* the window check with the comparison written <=, which turns away
\* stop = start
WindowRejectedOrEqual(start, stop) == stop > 0 /\ stop <= start

\* the window check at the top of main
WindowRejected(start, stop) == stop > 0 /\ stop < start

\* the dispatch with --record tested first
DispatchRecordFirst(playback, record, verify) ==
  IF record THEN "RecordShow"
  ELSE IF playback THEN "PlaybackShow"
  ELSE IF verify THEN "VerifyShow"
  ELSE "usage"

\* the branch main's dispatch takes
Dispatch(playback, record, verify) ==
  IF playback THEN "PlaybackShow"
  ELSE IF record THEN "RecordShow"
  ELSE IF verify THEN "VerifyShow"
  ELSE "usage"

\* exit status of main when no primary flag is given: the message is logged,
\* the usage is displayed and main falls through to its last return
NoFlagStatus == "EXIT_OK"

MainReject ==
  /\ pc = "main"
  /\ WindowRejected(FLAGS_start, FLAGS_stop)
  /\ pc' = "done"
  /\ exit_code' = "EXIT_USAGE"
  /\ UNCHANGED << flagVars, status, opVars, invoked, loaderVars, scanVars,
                  reportVars >>

MainDispatch ==
  /\ pc = "main"
  /\ ~WindowRejected(FLAGS_start, FLAGS_stop)
  /\ LET branch == Dispatch(FLAGS_playback, FLAGS_record, FLAGS_verify)
     IN  IF branch = "usage"
         THEN /\ pc' = "done"
              /\ exit_code' = NoFlagStatus
              /\ UNCHANGED invoked
         ELSE /\ pc' = branch
              /\ invoked' = invoked \cup {branch}
              /\ UNCHANGED exit_code
  /\ UNCHANGED << flagVars, status, opVars, loaderVars, scanVars,
                  reportVars >>

\* return PlaybackShow(); return RecordShow(); return VerifyShow(...);
MainStatus(op_status) == op_status

MainReturn ==
  /\ pc = "main_return"
  /\ exit_code' = MainStatus(status)
  /\ pc' = "done"
  /\ UNCHANGED << flagVars, status, opVars, invoked, loaderVars, scanVars,
                  reportVars >>

(* ---------------------------------------------------------------------- *)
(* PlaybackShow and RecordShow                                             *)
(* ---------------------------------------------------------------------- *)

ExitCodes == {"EXIT_OK", "EXIT_USAGE", "EXIT_NOINPUT", "EXIT_DATAERR"}

(* ShowPlayer, as the design describes Playback: passes through the show,  *)
(* each entry advancing the virtual clock, a pass ending at the end of the *)
(* show or at the stop time, the whole ending after `iterations` passes    *)
(* (0: never), when `duration` seconds have elapsed, on cancellation, or   *)
(* on a malformed line.                                                    *)

\* show files that are played back
PlayerFiles ==
  {f \in ShowFiles : /\ Len(f.entries) <= MaxPlayLen
                     /\ \A i \in 1..Len(f.entries) :
                          /\ f.entries[i].universe = 1
                          /\ f.entries[i].next_wait = 100}

\* the player at the start of Playback(iterations, duration, delay, start,
\* stop)
PlayerStart(args) ==
  [iterations |-> args.iterations, duration |-> args.duration,
   delay |-> args.delay, start |-> args.start, stop |-> args.stop,
   passes |-> 0, pos |-> 0]

\* Playback gives up, returning success: cancellation, or duration elapsed
PlayAbort(p, t, c) == c \/ (p.duration > 0 /\ t >= p.duration)

\* the pass ends at this entry: the virtual clock has reached the stop time
PlayStop(p, pos) == p.stop > 0 /\ pos >= p.stop

\* no pass remains after `passes` of them
PlayFinished(p, passes) == p.iterations > 0 /\ passes >= p.iterations

\* the arguments with iterations and duration in each other's place
PlaybackArgsSwapped(iterations, duration, delay, start, stop) ==
  [iterations |-> duration, duration |-> iterations, delay |-> delay,
   start |-> start, stop |-> stop]

\* player.Playback(FLAGS_iterations, FLAGS_duration, FLAGS_delay,
\*                 FLAGS_start, FLAGS_stop)
PlaybackArgs(iterations, duration, delay, start, stop) ==
  [iterations |-> iterations, duration |-> duration, delay |-> delay,
   start |-> start, stop |-> stop]

\* PlaybackShow: the status of ShowPlayer::Init, or of Playback when Init
\* returned 0
PlaybackStatus(init_status, playback_status) ==
  IF init_status = "EXIT_OK" THEN playback_status ELSE init_status

\* ShowPlayer player(...); status = player.Init(); and the call of Playback
PlaybackShow ==
  /\ pc = "PlaybackShow"
  /\ \E init_status \in ExitCodes :
       IF init_status # "EXIT_OK"
       THEN /\ status' = PlaybackStatus(init_status, "EXIT_OK")
            /\ pc' = "main_return"
            /\ UNCHANGED << file, loaded, player >>
       ELSE /\ \E f \in PlayerFiles : file' = f
            /\ loaded' = TRUE
            /\ player' = PlayerStart(PlaybackArgs(FLAGS_iterations,
                                                  FLAGS_duration, FLAGS_delay,
                                                  FLAGS_start, FLAGS_stop))
            /\ pc' = "play_pass"
            /\ UNCHANGED status
  /\ UNCHANGED << flagVars, recVars, elapsed, cancel, invoked, exit_code,
                  cursor, next_calls, entry, state, scanVars, reportVars >>

\* Playback returns `result` to PlaybackShow, which returns it
PlayReturn(result) ==
  /\ status' = PlaybackStatus("EXIT_OK", result)
  /\ pc' = "main_return"

\* a pass starts: the loader cursor is reset to the start of the show
PlayPassBegin ==
  /\ pc = "play_pass"
  /\ player.passes < MaxPasses
  /\ IF PlayAbort(player, elapsed, cancel)
     THEN /\ PlayReturn("EXIT_OK")
          /\ UNCHANGED << cursor, state, player >>
     ELSE /\ cursor' = 0
          /\ state' = "UNSET"
          /\ player' = [player EXCEPT !.pos = 0]
          /\ pc' = "play_entry"
          /\ UNCHANGED status
  /\ UNCHANGED << flagVars, recVars, elapsed, cancel, invoked, exit_code,
                  file, loaded, next_calls, entry, scanVars, reportVars >>

\* the next entry of the pass
PlayEntry ==
  /\ pc = "play_entry"
  /\ IF PlayAbort(player, elapsed, cancel)
     THEN /\ PlayReturn("EXIT_OK")
          /\ UNCHANGED << cursor, next_calls, entry, state, player >>
     ELSE /\ next_calls' = next_calls + 1
          /\ state' = NextEntryState(file, cursor)
          /\ IF state' = "OK"
             THEN /\ entry' = file.entries[cursor + 1]
                  /\ cursor' = NextCursor(cursor, state')
                  /\ player' = [player EXCEPT !.pos = @ + entry'.next_wait]
                  /\ pc' = IF PlayStop(player, player'.pos)
                           THEN "play_pass_end" ELSE "play_entry"
                  /\ UNCHANGED status
             ELSE /\ UNCHANGED << entry, player >>
                  /\ cursor' = NextCursor(cursor, state')
                  /\ IF state' = "END_OF_FILE"
                     THEN pc' = "play_pass_end" /\ UNCHANGED status
                     ELSE PlayReturn("EXIT_DATAERR")
  /\ UNCHANGED << flagVars, recVars, elapsed, cancel, invoked, exit_code,
                  file, loaded, scanVars, reportVars >>

\* a pass has ended: Playback returns, or sleeps `delay` and goes on
PlayPassEnd ==
  /\ pc = "play_pass_end"
  /\ player' = [player EXCEPT !.passes = @ + 1]
  /\ IF PlayFinished(player, player'.passes)
     THEN PlayReturn("EXIT_OK")
     ELSE pc' = "play_pass" /\ UNCHANGED status
  /\ UNCHANGED << flagVars, recVars, elapsed, cancel, invoked, exit_code,
                  loaderVars, scanVars, reportVars >>

PlayRunning == pc \in {"play_pass", "play_entry", "play_pass_end"}

\* a second of real time passes during the playback
PlayTick ==
  /\ PlayRunning
  /\ elapsed < MaxElapsed
  /\ elapsed' = elapsed + 1
  /\ UNCHANGED << flagVars, status, recVars, player, cancel, pc, invoked,
                  exit_code, loaderVars, scanVars, reportVars >>

\* cancellation of the playback is requested
PlayCancel ==
  /\ PlayRunning
  /\ ~cancel
  /\ cancel' = TRUE
  /\ UNCHANGED << flagVars, status, recVars, player, elapsed, pc, invoked,
                  exit_code, loaderVars, scanVars, reportVars >>

(* ShowRecorder, as the design describes it: Initialized, Recording,       *)
(* Stopped; Stop requests the stop, flushes and closes the log once;       *)
(* Record appends one entry per frame until it observes the stop request.  *)

\* entries the recorder writes
RecordedEntries == ShowEntry

\* the recorder after a successful Init
RecorderInit ==
  [state |-> "Initialized", stop_requested |-> FALSE, log |-> << >>,
   frame_count |-> 0, closes |-> 0, persisted |-> << >>]

\* Stop that closes the log again on every call
RecorderStopAgain(r) ==
  [r EXCEPT !.state = "Stopped", !.stop_requested = TRUE,
            !.closes = @ + 1, !.persisted = r.log]

\* Stop that closes the log without flushing the last entry
RecorderStopNoFlush(r) ==
  IF r.state = "Stopped" THEN r
  ELSE [r EXCEPT !.state = "Stopped", !.stop_requested = TRUE,
                 !.closes = @ + 1,
                 !.persisted = IF r.log = << >> THEN << >>
                               ELSE SubSeq(r.log, 1, Len(r.log) - 1)]

\* ShowRecorder::Stop
RecorderStop(r) ==
  IF r.state = "Stopped" THEN r
  ELSE [r EXCEPT !.state = "Stopped", !.stop_requested = TRUE,
                 !.closes = @ + 1, !.persisted = r.log]

\* Record that clears the stop request when it starts
RecorderRecordReset(r) ==
  [r EXCEPT !.state = "Recording", !.stop_requested = FALSE]

\* ShowRecorder::Record, on entry
RecorderRecord(r) ==
  IF r.state = "Initialized" THEN [r EXCEPT !.state = "Recording"] ELSE r

\* ShowRecorder::Record, on a frame-arrival notification
RecorderFrame(r, e) ==
  IF r.state = "Recording"
  THEN [r EXCEPT !.log = Append(@, e), !.frame_count = @ + 1]
  ELSE r

\* ShowRecorder::FrameCount
RecorderFrameCount(r) == r.frame_count

\* void TerminateRecorder(ShowRecorder *recorder) { recorder->Stop(); }
TerminateRecorder(r) == RecorderStop(r)

\* RecordShow: exit(EXIT_USAGE) without a usable universe list, the status of
\* ShowRecorder::Init when it is not 0, EXIT_OK after Record has returned
RecordStatus(universes, init_status) ==
  IF universes # "valid" THEN "EXIT_USAGE"
  ELSE IF init_status # "EXIT_OK" THEN init_status
  ELSE "EXIT_OK"

\* the universe list is parsed, the recorder constructed and initialised
RecordShow ==
  /\ pc = "RecordShow"
  /\ \E init_status \in ExitCodes :
       IF FLAGS_universes # "valid"
       THEN \* exit(ola::EXIT_USAGE)
            /\ status' = RecordStatus(FLAGS_universes, init_status)
            /\ exit_code' = status'
            /\ pc' = "done"
            /\ UNCHANGED recorder
       ELSE IF init_status # "EXIT_OK"
       THEN /\ status' = RecordStatus(FLAGS_universes, init_status)
            /\ pc' = "main_return"
            /\ UNCHANGED << exit_code, recorder >>
       ELSE /\ recorder' = RecorderInit
            /\ pc' = "rec_install"
            /\ UNCHANGED << status, exit_code >>
  /\ UNCHANGED << flagVars, signal_thread, signals, stop_calls, reported,
                  playVars, invoked, loaderVars, scanVars, reportVars >>

\* SignalThread signal_thread; InstallSignalHandler(SIGINT, ...);
\* InstallSignalHandler(SIGTERM, ...)
RecordInstall ==
  /\ pc = "rec_install"
  /\ signal_thread' = "installed"
  /\ pc' = "rec_start"
  /\ UNCHANGED << flagVars, status, recorder, signals, stop_calls, reported,
                  playVars, invoked, exit_code, loaderVars, scanVars,
                  reportVars >>

\* if (!signal_thread.Start()) { show_recorder.Stop(); }
RecordStart ==
  /\ pc = "rec_start"
  /\ \E started \in BOOLEAN :
       IF started
       THEN /\ signal_thread' = "running"
            /\ UNCHANGED << recorder, stop_calls >>
       ELSE /\ signal_thread' = "failed"
            /\ recorder' = RecorderStop(recorder)
            /\ stop_calls' = stop_calls + 1
  /\ pc' = "rec_record"
  /\ UNCHANGED << flagVars, status, signals, reported, playVars, invoked,
                  exit_code, loaderVars, scanVars, reportVars >>

\* show_recorder.Record() is called
RecordEnter ==
  /\ pc = "rec_record"
  /\ recorder' = RecorderRecord(recorder)
  /\ pc' = "rec_loop"
  /\ UNCHANGED << flagVars, status, signal_thread, signals, stop_calls,
                  reported, playVars, invoked, exit_code, loaderVars,
                  scanVars, reportVars >>

\* inside Record: a frame arrives and is written
RecordFrame ==
  /\ pc = "rec_loop"
  /\ ~recorder.stop_requested
  /\ recorder.frame_count < MaxFrames
  /\ \E e \in RecordedEntries : recorder' = RecorderFrame(recorder, e)
  /\ UNCHANGED << flagVars, status, signal_thread, signals, stop_calls,
                  reported, playVars, pc, invoked, exit_code, loaderVars,
                  scanVars, reportVars >>

\* inside Record: the stop request is observed and Record returns
RecordReturn ==
  /\ pc = "rec_loop"
  /\ recorder.stop_requested
  /\ pc' = "rec_scope_end"
  /\ UNCHANGED << flagVars, status, recVars, playVars, invoked, exit_code,
                  loaderVars, scanVars, reportVars >>

\* the signal thread runs the handler of SIGINT or SIGTERM
SignalHandler ==
  /\ signal_thread = "running"
  /\ signals < MaxSignals
  /\ \E sig \in {"SIGINT", "SIGTERM"} :
       recorder' = TerminateRecorder(recorder)
  /\ signals' = signals + 1
  /\ stop_calls' = stop_calls + 1
  /\ UNCHANGED << flagVars, status, signal_thread, reported, playVars, pc,
                  invoked, exit_code, loaderVars, scanVars, reportVars >>

\* the block ends: signal_thread is destroyed
RecordScopeEnd ==
  /\ pc = "rec_scope_end"
  /\ signal_thread' = "gone"
  /\ pc' = "rec_report"
  /\ UNCHANGED << flagVars, status, recorder, signals, stop_calls, reported,
                  playVars, invoked, exit_code, loaderVars, scanVars,
                  reportVars >>

\* cout << "Saved " << show_recorder.FrameCount() << " frames";
\* return ola::EXIT_OK;
RecordReport ==
  /\ pc = "rec_report"
  /\ reported' = RecorderFrameCount(recorder)
  /\ status' = RecordStatus(FLAGS_universes, "EXIT_OK")
  /\ pc' = "main_return"
  /\ UNCHANGED << flagVars, recorder, signal_thread, signals, stop_calls,
                  playVars, invoked, exit_code, loaderVars, scanVars,
                  reportVars >>

(* ---------------------------------------------------------------------- *)
(* VerifyShow                                                              *)
(* ---------------------------------------------------------------------- *)

\* the clamp with its threshold off by one: a count of 2 is left alone
ClampAboveTwo(frames) ==
  [u \in DOMAIN frames |-> IF frames[u] > 2 THEN 1 ELSE frames[u]]

\* ClampVerifyFrameCount: every count above 1 becomes 1
ClampVerifyFrameCount(frames) ==
  [u \in DOMAIN frames |-> IF frames[u] > 1 THEN 1 ELSE frames[u]]

\* the count written as an insert, which leaves an existing key alone
InsertFrames(frames, u) ==
  IF u \in DOMAIN frames THEN frames ELSE frames @@ (u :> 1)

\* frames_by_universe[universe]++ on a std::map: a missing key starts at 0
IncrementFrames(frames, u) ==
  IF u \in DOMAIN frames
  THEN [frames EXCEPT ![u] = @ + 1]
  ELSE frames @@ (u :> 1)

\* the stop test without the test for stop = 0 (no stop time)
StopReachedNoZeroTest(stop, pos) == pos >= stop

\* the stop test with the comparison written >
StopReachedStrict(stop, pos) == stop > 0 /\ pos > stop

\* the test that ends the scan at the stop time
StopReached(stop, pos) == stop > 0 /\ pos >= stop

\* the start test with the comparison written >=
StartFoundOrEqual(is_playing, pos, start) == ~is_playing /\ pos >= start

\* the start test without the playing flag: it holds at every later entry
StartFoundAgain(is_playing, pos, start) == pos > start

\* the test that finds the start point
StartFound(is_playing, pos, start) == ~is_playing /\ pos > start

\* the stop warning with the comparison written >=
StopWarningOrEqual(stop, pos) == stop >= pos

\* the two warnings after the scan
StartWarning(start, pos) == start > pos

StopWarning(stop, pos) == stop > pos

\* total_time without the guard: the difference itself
TotalTimeUnguarded(pos, start) == pos - start

\* total_time, guarded against the unsigned subtraction wrapping around
TotalTime(pos, start) ==
  IF pos >= start THEN pos - start ELSE 0

\* the sum of the counts the summary prints
RECURSIVE SumFrames(_, _)
SumFrames(frames, keys) ==
  IF keys = {} THEN 0
  ELSE LET u == CHOOSE k \in keys : TRUE
       IN  frames[u] + SumFrames(frames, keys \ {u})

\* the status with the state of a cut scan (OK) forgotten
VerifyStatusEndOnly(s) ==
  IF s = "END_OF_FILE" THEN "EXIT_OK" ELSE "EXIT_DATAERR"

\* the status with the failure branch forgotten
VerifyStatusAlwaysOk(s) == "EXIT_OK"

\* the status VerifyShow returns for the state the scan ended in
VerifyStatus(s) ==
  IF s = "OK" \/ s = "END_OF_FILE" THEN "EXIT_OK" ELSE "EXIT_DATAERR"

\* ShowLoader loader(filename); if (!loader.Load()) return EXIT_NOINPUT;
VerifyLoadFails ==
  /\ pc = "VerifyShow"
  /\ pc' = "main_return"
  /\ status' = "EXIT_NOINPUT"
  /\ UNCHANGED << flagVars, opVars, invoked, exit_code, loaderVars, scanVars,
                  reportVars >>

VerifyLoad ==
  /\ pc = "VerifyShow"
  /\ \E f \in ShowFiles : file' = f
  /\ loaded' = TRUE
  /\ pc' = "next"
  /\ UNCHANGED << flagVars, status, opVars, invoked, exit_code,
                  cursor, next_calls, entry,
                  state, scanVars, reportVars >>

\* state = loader.NextEntry(&entry); if (state != OK) break;
VerifyNextEntry ==
  /\ pc = "next"
  /\ next_calls' = next_calls + 1
  /\ state' = NextEntryState(file, cursor)
  /\ IF state' = "OK"
     THEN /\ entry' = file.entries[cursor + 1]
          /\ pc' = "count"
     ELSE /\ UNCHANGED entry
          /\ pc' = "warn"
  /\ cursor' = NextCursor(cursor, state')
  /\ UNCHANGED << flagVars, status, opVars, invoked, exit_code,
                  file, loaded, scanVars,
                  reportVars >>

\* playback_pos += entry.next_wait; frames_by_universe[entry.universe]++;
VerifyCount ==
  /\ pc = "count"
  /\ playback_pos' = playback_pos + entry.next_wait
  /\ frames_by_universe' = IncrementFrames(frames_by_universe, entry.universe)
  /\ pc' = "stop"
  /\ UNCHANGED << flagVars, status, opVars, invoked, exit_code,
                  loaderVars, playing,
                  reportVars >>

\* if (FLAGS_stop > 0 && playback_pos >= FLAGS_stop) { ...; break; }
VerifyStopCheck ==
  /\ pc = "stop"
  /\ IF StopReached(FLAGS_stop, playback_pos)
     THEN /\ playback_pos' = FLAGS_stop
          /\ pc' = "warn"
     ELSE /\ UNCHANGED playback_pos
          /\ pc' = "start"
  /\ UNCHANGED << flagVars, status, opVars, invoked, exit_code,
                  loaderVars, playing,
                  frames_by_universe, reportVars >>

\* if (!playing && playback_pos > FLAGS_start) { playing = true; Clamp...; }
VerifyStartCheck ==
  /\ pc = "start"
  /\ IF StartFound(playing, playback_pos, FLAGS_start)
     THEN /\ playing' = TRUE
          /\ frames_by_universe' = ClampVerifyFrameCount(frames_by_universe)
     ELSE UNCHANGED << playing, frames_by_universe >>
  /\ pc' = "next"
  /\ UNCHANGED << flagVars, status, opVars, invoked, exit_code,
                  loaderVars, playback_pos,
                  reportVars >>

\* the two OLA_WARN tests after the loop
VerifyWarn ==
  /\ pc = "warn"
  /\ warn_start' = StartWarning(FLAGS_start, playback_pos)
  /\ warn_stop' = StopWarning(FLAGS_stop, playback_pos)
  /\ pc' = "summary"
  /\ UNCHANGED << flagVars, status, opVars, invoked, exit_code,
                  loaderVars, scanVars,
                  total_time, total, summary >>

\* total_time and the summary written to cout
VerifySummary ==
  /\ pc = "summary"
  /\ total_time' = TotalTime(playback_pos, FLAGS_start)
  /\ total' = SumFrames(frames_by_universe, DOMAIN frames_by_universe)
  /\ summary' = TRUE
  /\ pc' = "return"
  /\ UNCHANGED << flagVars, status, opVars, invoked, exit_code,
                  loaderVars, scanVars,
                  warn_start, warn_stop >>

\* the return at the end of VerifyShow
VerifyReturn ==
  /\ pc = "return"
  /\ status' = VerifyStatus(state)
  /\ pc' = "main_return"
  /\ UNCHANGED << flagVars, opVars, invoked, exit_code, loaderVars, scanVars,
                  reportVars >>

(* ---------------------------------------------------------------------- *)
(* Specification                                                           *)
(* ---------------------------------------------------------------------- *)

\* ShowLoader::NextEntry called on a cursor, again and again
LoaderNextEntry ==
  /\ pc = "loader"
  /\ loaded
  /\ next_calls < MaxCalls
  /\ next_calls' = next_calls + 1
  /\ state' = NextEntryState(file, cursor)
  /\ IF state' = "OK"
     THEN entry' = file.entries[cursor + 1]
     ELSE UNCHANGED entry
  /\ cursor' = NextCursor(cursor, state')
  /\ UNCHANGED << flagVars, status, opVars, pc, invoked, exit_code, file,
                  loaded, scanVars, reportVars >>

PlaybackNext ==
  \/ PlaybackShow
  \/ PlayPassBegin
  \/ PlayEntry
  \/ PlayPassEnd
  \/ PlayTick
  \/ PlayCancel

RecordNext ==
  \/ RecordShow
  \/ RecordInstall
  \/ RecordStart
  \/ RecordEnter
  \/ RecordFrame
  \/ RecordReturn
  \/ SignalHandler
  \/ RecordScopeEnd
  \/ RecordReport

VerifyNext ==
  \/ VerifyLoadFails
  \/ VerifyLoad
  \/ VerifyNextEntry
  \/ VerifyCount
  \/ VerifyStopCheck
  \/ VerifyStartCheck
  \/ VerifyWarn
  \/ VerifySummary
  \/ VerifyReturn

MainNext ==
  \/ MainReject
  \/ MainDispatch
  \/ MainReturn

Next ==
  \/ MainNext
  \/ PlaybackNext
  \/ RecordNext
  \/ VerifyNext

Spec == Init /\ [][Next]_vars

\* runs of the program with --record and without --playback; the thread
\* that called Record keeps running
InitRecord == Init /\ FLAGS_record /\ ~FLAGS_playback

NextRecord == MainNext \/ RecordNext

SpecRecord ==
  /\ InitRecord
  /\ [][NextRecord]_vars
  /\ WF_vars(RecordEnter)
  /\ WF_vars(RecordReturn)

\* runs of the program with --playback
InitPlayback == Init /\ FLAGS_playback

NextPlayback == MainNext \/ PlaybackNext

SpecPlayback == InitPlayback /\ [][NextPlayback]_vars

\* a loader cursor over any show file, read by any caller
InitLoader ==
  /\ InitFlags
  /\ ~FLAGS_playback /\ ~FLAGS_record /\ FLAGS_verify
  /\ FLAGS_start = 0 /\ FLAGS_stop = 0
  /\ InitLocals
  /\ pc = "loader"

LoaderLoad ==
  /\ pc = "loader"
  /\ ~loaded
  /\ \E f \in ShowFiles : file' = f
  /\ loaded' = TRUE
  /\ UNCHANGED << flagVars, status, opVars, pc, invoked, exit_code, cursor,
                  next_calls, entry, state, scanVars, reportVars >>

NextLoader == LoaderLoad \/ LoaderNextEntry

SpecLoader == InitLoader /\ [][NextLoader]_vars

(* ---------------------------------------------------------------------- *)
(* Reference definitions the properties are stated with: what a show file  *)
(* and a window determine, computed from the file and not from the scan    *)
(* ---------------------------------------------------------------------- *)

\* cumulative time of the first k entries of s
RECURSIVE SumWait(_, _)
SumWait(s, k) ==
  IF k = 0 THEN 0 ELSE SumWait(s, k - 1) + s[k].next_wait

\* number of entries of universe u among s[lo..hi]
CountOf(s, u, lo, hi) ==
  Cardinality({i \in lo..hi : s[i].universe = u})

\* least k in 1..n with P-like condition, 0 when there is none
FirstAbove(s, n, bound) ==
  LET hits == {k \in 1..n : SumWait(s, k) > bound}
  IN  IF hits = {} THEN 0 ELSE CHOOSE k \in hits : \A j \in hits : k <= j

FirstAtLeast(s, n, bound) ==
  LET hits == {k \in 1..n : SumWait(s, k) >= bound}
  IN  IF hits = {} THEN 0 ELSE CHOOSE k \in hits : \A j \in hits : k <= j

\* the entry at which the cumulative time reaches stop, 0 without one
ClipEntry(s, stop) ==
  IF stop > 0 THEN FirstAtLeast(s, Len(s), stop) ELSE 0

\* the counts after the first k entries when the counts were clamped to at
\* most 1 right after entry c was counted (c = 0: never clamped)
CountsAfter(s, k, c) ==
  [u \in {s[i].universe : i \in 1..k} |->
     IF c = 0 THEN CountOf(s, u, 1, k)
     ELSE (IF CountOf(s, u, 1, c) > 1 THEN 1 ELSE CountOf(s, u, 1, c))
          + CountOf(s, u, c + 1, k)]

\* the raw counts of the first k entries
RawCounts(s, k) == CountsAfter(s, k, 0)

\* the entry at which the start point is found in a scan of the first k
\* entries that was not cut at any of them but possibly at entry k
StartEntry(s, k, start, stop) ==
  LET c == FirstAbove(s, k, start)
  IN  IF c # 0 /\ ClipEntry(s, stop) = c THEN 0 ELSE c

ScenarioShow ==
  << [universe |-> 1, next_wait |-> 100],
     [universe |-> 1, next_wait |-> 200],
     [universe |-> 2, next_wait |-> 50] >>

\* VerifyShow ran on a loaded file and has written its summary
Verified == invoked = {"VerifyShow"} /\ loaded /\ summary

\* the number of primary flags that are set
PrimaryFlags ==
  (IF FLAGS_playback THEN 1 ELSE 0) + (IF FLAGS_record THEN 1 ELSE 0)
    + (IF FLAGS_verify THEN 1 ELSE 0)

(* ---------------------------------------------------------------------- *)
(* C1                                                                      *)
(* ---------------------------------------------------------------------- *)

\* C1 (as stated): the show [(1,100),(1,200),(2,50)] verified with
\* start=150, stop=0 is reported with the counts u1: 2 and u2: 1, the
\* crossing entry's own increment being counted on top of the clamp.
C1_Original ==
  (Verified /\ file.entries = ScenarioShow /\ file.end = "END_OF_FILE"
     /\ FLAGS_start = 150 /\ FLAGS_stop = 0)
    => frames_by_universe = (1 :> 2) @@ (2 :> 1)

\* C1 (amended): in a scan read to the end of the file with stop = 0, the
\* clamp at the first entry whose cumulative wait exceeds start applies to
\* the counts accumulated so far, the crossing entry's own increment
\* included; only later entries add to the clamped counts. The show
\* [(1,100),(1,200),(2,50)] with start=150, stop=0 is reported as u1: 1 and
\* u2: 1.
C1_Amended ==
  (Verified /\ file.end = "END_OF_FILE" /\ FLAGS_stop = 0)
    => LET s == file.entries
           c == FirstAbove(s, Len(s), FLAGS_start)
       IN  /\ frames_by_universe = CountsAfter(s, Len(s), c)
           /\ (s = ScenarioShow /\ FLAGS_start = 150)
                => frames_by_universe = (1 :> 1) @@ (2 :> 1)

C1_Witness ==
  /\ Verified /\ pc = "done"
  /\ file.entries = ScenarioShow /\ file.end = "END_OF_FILE"
  /\ FLAGS_start = 150 /\ FLAGS_stop = 0
  /\ frames_by_universe = (1 :> 1) @@ (2 :> 1)

(* ---------------------------------------------------------------------- *)
(* C2                                                                      *)
(* ---------------------------------------------------------------------- *)

\* C2: for a show read to the end of the file with stop = 0, total_time is
\* the sum of all waits minus start when that is not negative and 0
\* otherwise; it is never a wrapped-around difference.
C2_TotalTime ==
  (Verified /\ file.end = "END_OF_FILE" /\ FLAGS_stop = 0)
    => LET sum == SumWait(file.entries, Len(file.entries))
       IN  /\ state = "END_OF_FILE"
           /\ total_time >= 0
           /\ sum - FLAGS_start >= 0 => total_time = sum - FLAGS_start
           /\ sum - FLAGS_start < 0 => total_time = 0

C2_Witness ==
  /\ Verified /\ pc = "done" /\ file.end = "END_OF_FILE" /\ FLAGS_stop = 0
  /\ Len(file.entries) = 3
  /\ SumWait(file.entries, 3) > 0
  /\ SumWait(file.entries, 3) < FLAGS_start
  /\ total_time = 0

(* ---------------------------------------------------------------------- *)
(* C3                                                                      *)
(* ---------------------------------------------------------------------- *)

\* C3: with stop > 0, the first entry after which the cumulative time is
\* >= stop is counted, playback_pos becomes exactly stop, no further entry
\* is consumed, and with stop >= start total_time is stop - start. The
\* show [(1,100),(1,200),(2,50)] with stop=120 gives u1 = 2, nothing for
\* u2 and total_time = 120.
C3_StopClip ==
  (Verified /\ ClipEntry(file.entries, FLAGS_stop) # 0)
    => LET s == file.entries
           k == ClipEntry(s, FLAGS_stop)
       IN  /\ cursor = k
           /\ next_calls = k
           /\ entry = s[k]
           /\ playback_pos = FLAGS_stop
           /\ frames_by_universe
                = CountsAfter(s, k, StartEntry(s, k, FLAGS_start, FLAGS_stop))
           /\ FLAGS_stop >= FLAGS_start
                => total_time = FLAGS_stop - FLAGS_start
           /\ (s = ScenarioShow /\ FLAGS_start = 0 /\ FLAGS_stop = 120)
                => /\ frames_by_universe = (1 :> 2)
                   /\ total_time = 120

C3_Witness ==
  /\ Verified /\ pc = "done"
  /\ file.entries = ScenarioShow
  /\ FLAGS_start = 0 /\ FLAGS_stop = 120
  /\ cursor = 2
  /\ frames_by_universe = (1 :> 2)
  /\ total_time = 120

(* ---------------------------------------------------------------------- *)
(* C4                                                                      *)
(* ---------------------------------------------------------------------- *)

\* C4: the clamp sets every universe's count to min(count, 1) and changes
\* neither playback_pos nor the set of universes seen; it is applied at
\* most once in a pass: only in the step in which playing goes from false
\* to true, and playing never goes back to false.
C4_ClampLaw ==
  [][ /\ playing => playing'
      /\ (pc = "start" /\ playing' # playing)
           => /\ DOMAIN frames_by_universe' = DOMAIN frames_by_universe
              /\ \A u \in DOMAIN frames_by_universe :
                   frames_by_universe'[u]
                     = IF frames_by_universe[u] < 1 THEN frames_by_universe[u]
                       ELSE 1
              /\ playback_pos' = playback_pos
      /\ (pc = "start" /\ playing' = playing)
           => frames_by_universe' = frames_by_universe
      /\ (pc # "start" /\ pc # "count")
           => frames_by_universe' = frames_by_universe
    ]_vars

C4_Witness ==
  /\ pc = "next" /\ playing /\ cursor = 2
  /\ file.entries[1].universe = file.entries[2].universe
  /\ SumWait(file.entries, 1) <= FLAGS_start
  /\ SumWait(file.entries, 2) > FLAGS_start
  /\ frames_by_universe[entry.universe] = 1

(* ---------------------------------------------------------------------- *)
(* C5                                                                      *)
(* ---------------------------------------------------------------------- *)

\* C5 (as stated): with start = 0 and stop = 0, for every show read to the
\* end of the file each universe's reported count is its number of entries
\* and the total is the number of entries of the show.
C5_Original ==
  (Verified /\ file.end = "END_OF_FILE" /\ FLAGS_start = 0 /\ FLAGS_stop = 0)
    => /\ frames_by_universe = RawCounts(file.entries, Len(file.entries))
       /\ total = Len(file.entries)

\* no universe has more than one entry up to and including the first entry
\* with a positive cumulative wait
NoRepeatUpToStart(s) ==
  LET c == FirstAbove(s, Len(s), 0)
  IN  \A u \in Universes : CountOf(s, u, 1, c) <= 1

\* C5 (amended): with start = 0 the clamp fires at the first entry whose
\* cumulative wait is positive; it changes nothing when no universe has
\* more than one entry up to and including that entry (in particular when
\* the first entry's wait is positive, or when every wait is 0). For every
\* such show verified with start=0, stop=0 and read to the end of the file,
\* each universe's reported count is its number of entries and the total is
\* the number of entries (the show [(1,100),(1,200),(2,50)]: u1: 2, u2: 1,
\* total 3, total_time 350).
C5_Amended ==
  (Verified /\ file.end = "END_OF_FILE" /\ FLAGS_start = 0 /\ FLAGS_stop = 0
     /\ NoRepeatUpToStart(file.entries))
    => /\ frames_by_universe = RawCounts(file.entries, Len(file.entries))
       /\ total = Len(file.entries)
       /\ file.entries = ScenarioShow
            => /\ frames_by_universe = (1 :> 2) @@ (2 :> 1)
               /\ total = 3
               /\ total_time = 350

C5_Witness ==
  /\ Verified /\ pc = "done" /\ playing
  /\ file.entries = ScenarioShow /\ file.end = "END_OF_FILE"
  /\ FLAGS_start = 0 /\ FLAGS_stop = 0
  /\ frames_by_universe = (1 :> 2) @@ (2 :> 1)
  /\ total = 3 /\ total_time = 350

(* ---------------------------------------------------------------------- *)
(* C6                                                                      *)
(* ---------------------------------------------------------------------- *)

\* C6: when none or more than one of --record, --playback, --verify is
\* set, the process ends with EXIT_USAGE and none of RecordShow,
\* PlaybackShow, VerifyShow is invoked.
C6_ExactlyOneFlag ==
  PrimaryFlags # 1
    => /\ invoked = {}
       /\ pc \in {"main", "done"}
       /\ pc = "done" => exit_code = "EXIT_USAGE"

(* ---------------------------------------------------------------------- *)
(* C7                                                                      *)
(* ---------------------------------------------------------------------- *)

\* C7: whenever stop is nonzero and stop < start, main returns EXIT_USAGE
\* with no show file opened and none of RecordShow, PlaybackShow,
\* VerifyShow invoked, whichever primary flag is set; with stop = 0 or
\* stop >= start (stop = start included) the window check does not reject
\* the run: main goes on to the operation its primary flag selects.
C7_WindowCheck ==
  /\ (FLAGS_stop # 0 /\ FLAGS_stop < FLAGS_start)
       => /\ invoked = {}
          /\ pc \in {"main", "done"}
          /\ pc = "done" => exit_code = "EXIT_USAGE"
          /\ ~loaded /\ file = NoFile /\ next_calls = 0 /\ ~summary
  /\ ((FLAGS_stop = 0 \/ FLAGS_stop >= FLAGS_start)
        /\ PrimaryFlags >= 1 /\ pc # "main")
       => invoked # {}

C7_Witness ==
  /\ FLAGS_stop = 100 /\ FLAGS_start = 100
  /\ FLAGS_verify /\ invoked = {"VerifyShow"} /\ loaded /\ pc = "done"
  /\ exit_code = "EXIT_OK"

(* ---------------------------------------------------------------------- *)
(* C8                                                                      *)
(* ---------------------------------------------------------------------- *)

\* C8: VerifyShow returns EXIT_OK exactly when the scan ended at the end of
\* the file or by the stop-clip, EXIT_DATAERR exactly when the loader
\* reported a malformed line, and EXIT_NOINPUT exactly when Load failed;
\* then NextEntry is never called and no summary is written.
C8_ExitStatus ==
  (invoked = {"VerifyShow"} /\ pc = "done")
    => LET clipped == loaded /\ ClipEntry(file.entries, FLAGS_stop) # 0
           atEnd   == loaded /\ ~clipped /\ file.end = "END_OF_FILE"
           invalid == loaded /\ ~clipped /\ file.end = "INVALID_LINE"
       IN  /\ exit_code = "EXIT_OK" <=> (atEnd \/ clipped)
           /\ exit_code = "EXIT_DATAERR" <=> invalid
           /\ exit_code = "EXIT_NOINPUT" <=> ~loaded
           /\ atEnd => state = "END_OF_FILE"
           /\ clipped => state = "OK"
           /\ invalid => state = "INVALID_LINE"
           /\ ~loaded => (next_calls = 0 /\ ~summary)

C8_Witness ==
  /\ invoked = {"VerifyShow"} /\ pc = "done"
  /\ loaded /\ file.end = "INVALID_LINE"
  /\ ClipEntry(file.entries, FLAGS_stop) = 2
  /\ Len(file.entries) = 3
  /\ exit_code = "EXIT_OK"

(* ---------------------------------------------------------------------- *)
(* C9                                                                      *)
(* ---------------------------------------------------------------------- *)

\* C9: when the loader reports a malformed line after k entries, no further
\* entry is consumed and what was accumulated is kept: the counts,
\* playback_pos and total_time reported are those of the first k entries,
\* and the exit status is EXIT_DATAERR.
C9_FormatError ==
  (invoked = {"VerifyShow"} /\ state = "INVALID_LINE")
    => LET s == file.entries
           k == Len(s)
           c == FirstAbove(s, k, FLAGS_start)
       IN  /\ cursor = k
           /\ next_calls = k + 1
           /\ playback_pos = SumWait(s, k)
           /\ frames_by_universe = CountsAfter(s, k, c)
           /\ playing <=> c # 0
           /\ summary
                => /\ total_time = IF SumWait(s, k) >= FLAGS_start
                                   THEN SumWait(s, k) - FLAGS_start ELSE 0
                   /\ total = Len(s) - (IF c = 0 THEN 0
                                        ELSE c - Cardinality(
                                               {s[i].universe : i \in 1..c}))
           /\ pc = "done" => (summary /\ exit_code = "EXIT_DATAERR")

C9_Witness ==
  /\ invoked = {"VerifyShow"} /\ state = "INVALID_LINE" /\ pc = "done"
  /\ Len(file.entries) = 3
  /\ FirstAbove(file.entries, 3, FLAGS_start) = 2
  /\ file.entries[1].universe = file.entries[2].universe
  /\ total = 2
  /\ exit_code = "EXIT_DATAERR"

(* ---------------------------------------------------------------------- *)
(* C10                                                                     *)
(* ---------------------------------------------------------------------- *)

\* C10: for a show read without a malformed line, the start warning is
\* logged iff start exceeds the show's total length (the sum of all waits)
\* and the stop warning iff stop exceeds it; the warnings do not change the
\* exit status, which is EXIT_OK.
C10_Warnings ==
  (Verified /\ state # "INVALID_LINE")
    => LET length == SumWait(file.entries, Len(file.entries))
       IN  /\ warn_start <=> FLAGS_start > length
           /\ warn_stop <=> FLAGS_stop > length
           /\ pc = "done" => exit_code = "EXIT_OK"

C10_Witness ==
  /\ Verified /\ state = "END_OF_FILE" /\ pc = "done"
  /\ Len(file.entries) = 3
  /\ warn_start /\ warn_stop
  /\ exit_code = "EXIT_OK"

(* ---------------------------------------------------------------------- *)
(* C11                                                                     *)
(* ---------------------------------------------------------------------- *)

\* C11: whatever the number and the interleaving of the Stop calls (from
\* the SIGINT handler, the SIGTERM handler and the fallback when the signal
\* thread fails to start), once one was made the recorder is Stopped with
\* its log flushed and closed exactly once, and nothing is appended to the
\* log after the first Stop.
C11_StopIdempotent ==
  [][ /\ stop_calls' > 0
           => /\ recorder'.state = "Stopped"
              /\ recorder'.closes = 1
              /\ recorder'.persisted = recorder'.log
      /\ stop_calls' = 0 => recorder'.closes = 0
      /\ recorder.state = "Stopped"
           => /\ recorder'.log = recorder.log
              /\ recorder'.persisted = recorder.persisted
    ]_vars

C11_Witness ==
  /\ stop_calls = 2 /\ signals = 2
  /\ recorder.state = "Stopped" /\ recorder.closes = 1
  /\ Len(recorder.log) = 2 /\ recorder.persisted = recorder.log
  /\ pc = "done"

(* ---------------------------------------------------------------------- *)
(* C12                                                                     *)
(* ---------------------------------------------------------------------- *)

\* Record has been called and has returned
RecordReturned ==
  /\ invoked = {"RecordShow"}
  /\ signal_thread \in {"running", "failed", "gone"}
  /\ pc \in {"rec_scope_end", "rec_report", "main_return", "done"}

\* C12: Record returns only if Stop has been called, and once Stop has
\* been called Record eventually returns, also when Stop was called before
\* Record because the signal thread failed to start.
C12_RecordReturns ==
  /\ [](RecordReturned => stop_calls > 0)
  /\ (stop_calls > 0) ~> RecordReturned

C12_Witness ==
  /\ RecordReturned /\ pc = "rec_scope_end"
  /\ signal_thread = "failed" /\ stop_calls = 1 /\ signals = 0

(* ---------------------------------------------------------------------- *)
(* C13                                                                     *)
(* ---------------------------------------------------------------------- *)

\* C13: once NextEntry has returned END_OF_FILE or INVALID_LINE on a
\* cursor, every later call returns the same state and leaves the cursor
\* and the entry alone; the cursor advances, by exactly one record, only on
\* a call that returns an entry.
C13_TerminalSticky ==
  [][ next_calls' = next_calls + 1
        => /\ state \in {"END_OF_FILE", "INVALID_LINE"}
                => (state' = state /\ cursor' = cursor /\ entry' = entry)
           /\ state' = "OK"
                => (cursor' = cursor + 1 /\ entry' = file.entries[cursor'])
           /\ state' # "OK" => cursor' = cursor
    ]_vars

C13_Witness ==
  /\ pc = "loader" /\ state = "INVALID_LINE"
  /\ cursor = 2 /\ Len(file.entries) = 2
  /\ next_calls = 5

(* ---------------------------------------------------------------------- *)
(* C14                                                                     *)
(* ---------------------------------------------------------------------- *)

\* the number of entries a loader over show file f yields from position
\* pos on, before its terminal state
RECURSIVE LoaderYield(_, _)
LoaderYield(f, pos) ==
  IF NextEntryState(f, pos) = "OK" THEN 1 + LoaderYield(f, pos + 1) ELSE 0

\* C14: FrameCount never decreases while recording and does not change
\* once the recorder is Stopped; the count RecordShow reports after Record
\* has returned is the number of entries a loader over the persisted show
\* yields before the end of the file, whatever the interleaving of frame
\* arrivals and Stop calls.
C14_FrameCount ==
  [][ /\ recorder'.frame_count >= recorder.frame_count
      /\ recorder.state = "Stopped"
           => recorder'.frame_count = recorder.frame_count
      /\ reported' # -1
           => reported' = LoaderYield([entries |-> recorder'.persisted,
                                       end |-> "END_OF_FILE"], 0)
    ]_vars

C14_Witness ==
  /\ pc = "done" /\ invoked = {"RecordShow"}
  /\ reported = 2 /\ Len(recorder.persisted) = 2
  /\ signals = 1 /\ recorder.state = "Stopped"

(* ---------------------------------------------------------------------- *)
(* C15                                                                     *)
(* ---------------------------------------------------------------------- *)

\* C15: with --iterations 0 the end of a pass through the show is always
\* followed by another pass, which starts with the cursor reset, and
\* Playback returns only when the duration (if > 0) has elapsed, when
\* cancellation was requested, or when the loader reports a malformed
\* line.
C15_UnboundedLoop ==
  [][ FLAGS_iterations = 0
        => /\ (PlayRunning /\ pc' = "main_return")
                => \/ cancel
                   \/ (FLAGS_duration > 0 /\ elapsed >= FLAGS_duration)
                   \/ state' = "INVALID_LINE"
           /\ (pc = "play_pass_end" /\ pc' # pc) => pc' = "play_pass"
           /\ (pc = "play_pass" /\ pc' = "play_entry") => cursor' = 0
    ]_vars

C15_Witness ==
  /\ FLAGS_iterations = 0 /\ FLAGS_duration = 1
  /\ pc = "play_entry" /\ player.passes = 1
  /\ cursor = 1 /\ state = "OK"
  /\ Len(file.entries) = 2 /\ file.end = "END_OF_FILE"
  /\ ~cancel /\ elapsed = 0

(* ---------------------------------------------------------------------- *)
(* C16                                                                     *)
(* ---------------------------------------------------------------------- *)

\* VerifyShow has dealt with the first `cursor` entries entirely: it is
\* about to read the next one, or the scan is over
BetweenEntries ==
  /\ invoked = {"VerifyShow"} /\ loaded
  /\ pc \in {"next", "warn", "summary", "return", "main_return", "done"}

\* C16 (as stated): whenever a consumed entry brings the cumulative time
\* strictly above start, the clamp has fired at the first such entry, also
\* when that entry reaches or exceeds stop; it has not fired while every
\* consumed entry's cumulative time is <= start.
C16_Original ==
  BetweenEntries
    => LET c == FirstAbove(file.entries, cursor, FLAGS_start)
       IN  /\ playing <=> c # 0
           /\ frames_by_universe = CountsAfter(file.entries, cursor, c)

\* C16 (amended): whenever a consumed entry that does not end the scan by
\* the stop-clip brings the cumulative time strictly above start, the clamp
\* fires exactly at the first such entry (playing becomes true in the
\* processing of that entry); at the entry that reaches or exceeds stop the
\* scan ends before the start test, so the clamp does not fire there; it
\* never fires at an entry whose cumulative time is <= start.
C16_Amended ==
  BetweenEntries
    => LET c == StartEntry(file.entries, cursor, FLAGS_start, FLAGS_stop)
       IN  /\ playing <=> c # 0
           /\ frames_by_universe = CountsAfter(file.entries, cursor, c)

C16_Witness ==
  /\ BetweenEntries /\ pc = "done" /\ playing
  /\ Len(file.entries) = 3
  /\ \A i \in 1..3 : file.entries[i].universe = 1
  /\ FLAGS_start > 0
  /\ SumWait(file.entries, 1) = FLAGS_start
  /\ FirstAbove(file.entries, 3, FLAGS_start) = 2
  /\ ClipEntry(file.entries, FLAGS_stop) = 3
  /\ frames_by_universe = (1 :> 2)

(* ---------------------------------------------------------------------- *)
(* C17                                                                     *)
(* ---------------------------------------------------------------------- *)

\* C17: each time the next entry is about to be read, playback_pos is the
\* sum of the waits of the entries consumed so far, which is never below
\* the sum before the last of them; a stop-clip leaves playback_pos at
\* stop, strictly above its value before the clipping entry.
C17_VirtualClock ==
  (invoked = {"VerifyShow"} /\ loaded)
    => LET s == file.entries
       IN  /\ pc \in {"next", "stop", "start"}
                => playback_pos = SumWait(s, cursor)
           /\ pc = "count" => playback_pos = SumWait(s, cursor - 1)
           /\ (pc = "next" /\ cursor > 0)
                => playback_pos >= SumWait(s, cursor - 1)
           /\ (BetweenEntries /\ pc # "next")
                => IF state = "OK"
                   THEN /\ playback_pos = FLAGS_stop
                        /\ playback_pos > SumWait(s, cursor - 1)
                        /\ playback_pos <= SumWait(s, cursor)
                   ELSE playback_pos = SumWait(s, cursor)

C17_Witness ==
  /\ BetweenEntries /\ pc = "done" /\ state = "OK"
  /\ cursor = 2 /\ Len(file.entries) = 3
  /\ playback_pos = FLAGS_stop
  /\ SumWait(file.entries, 1) = 100
  /\ SumWait(file.entries, 2) = 300
  /\ playback_pos = 120

(* ---------------------------------------------------------------------- *)
(* C18                                                                     *)
(* ---------------------------------------------------------------------- *)

\* what a scan that is cut at the last entry of p reports, from p and the
\* window alone
PrefixResult(p, start, stop) ==
  LET k == Len(p)
      c == StartEntry(p, k, start, stop)
  IN  [frames |-> CountsAfter(p, k, c),
       total |-> k - (IF c = 0 THEN 0
                      ELSE c - Cardinality({p[i].universe : i \in 1..c})),
       total_time |-> IF stop >= start THEN stop - start ELSE 0,
       warn_start |-> start > stop,
       warn_stop |-> FALSE,
       exit |-> "EXIT_OK"]

\* C18: when the scan ends by the stop-clip, the counts, total, total_time,
\* warnings and exit status are determined by the entries up to and
\* including the clipping entry and by the window: whatever follows in the
\* file (more entries, a malformed line) is never read and changes nothing.
C18_PrefixOnly ==
  (BetweenEntries /\ pc = "done" /\ ClipEntry(file.entries, FLAGS_stop) # 0)
    => LET k == ClipEntry(file.entries, FLAGS_stop)
       IN  /\ next_calls = k
           /\ cursor = k
           /\ [frames |-> frames_by_universe, total |-> total,
               total_time |-> total_time, warn_start |-> warn_start,
               warn_stop |-> warn_stop, exit |-> exit_code]
                = PrefixResult(SubSeq(file.entries, 1, k), FLAGS_start,
                               FLAGS_stop)

C18_Witness ==
  /\ BetweenEntries /\ pc = "done"
  /\ ClipEntry(file.entries, FLAGS_stop) = 1
  /\ Len(file.entries) = 3 /\ file.end = "INVALID_LINE"
  /\ next_calls = 1 /\ total = 1 /\ exit_code = "EXIT_OK"

(* ---------------------------------------------------------------------- *)
(* C19                                                                     *)
(* ---------------------------------------------------------------------- *)

\* C19: a run of main invokes at most one of PlaybackShow, RecordShow and
\* VerifyShow, chosen by the priority playback, record, verify: with
\* --playback set neither a recording nor a verification is started,
\* whatever other primary flags are set; the exit code of the process is
\* the status of the operation that ran.
C19_Priority ==
  /\ Cardinality(invoked) <= 1
  /\ FLAGS_playback
       => /\ invoked \subseteq {"PlaybackShow"}
          /\ recorder = NoRecorder /\ signal_thread = "none"
          /\ ~summary /\ playback_pos = 0
  /\ (~FLAGS_playback /\ FLAGS_record) => invoked \subseteq {"RecordShow"}
  /\ (~FLAGS_playback /\ ~FLAGS_record /\ FLAGS_verify)
       => invoked \subseteq {"VerifyShow"}
  /\ PrimaryFlags = 0 => invoked = {}
  /\ (pc # "main" /\ PrimaryFlags > 0
        /\ ~(FLAGS_stop # 0 /\ FLAGS_stop < FLAGS_start))
       => Cardinality(invoked) = 1
  /\ (pc = "done" /\ invoked # {})
       => (status \in ExitCodes /\ exit_code = status)

C19_Witness ==
  /\ FLAGS_playback /\ FLAGS_record /\ FLAGS_verify
  /\ pc = "done" /\ invoked = {"PlaybackShow"}
  /\ loaded /\ player.passes = 0 /\ cursor = 1 /\ next_calls = 2
  /\ state = "INVALID_LINE" /\ exit_code = "EXIT_DATAERR"

====
